---- MODULE Spec2Model ----
(***************************************************************************)
(* The request/response protocol adapter of pages/api/prerender.ts and the *)
(* rewrite conditions of next.config.js.                                   *)
(*                                                                         *)
(* Texts are plain strings; Chars gives the characters of the texts the   *)
(* code looks into (url, host, user-agent).                                *)
(***************************************************************************)
EXTENDS Integers, Sequences, FiniteSets, TLC

\* ------------------------------------------------------------------ bounds
MaxCalls == 2
MaxHeadLen == 1
MaxConcCalls == 1
MaxRepeatCalls == 1

\* A request and a second one in flight with it: what is said of several
\* requests is said of every two of them.
Reqs == { 1, 2 }

\* ------------------------------------------------------- texts of the code
ADAPTER_PATH == "/api/prerender"
LOCALHOST == "localhost"
PRERENDER == "prerender"
FALLBACK_USER_AGENT == "prerender-vercel-middleware-nextfn"

\* The JavaScript value undefined, for a text and for the status number
\* (let status: number; is undefined until writeHead).
Undefined == "<undefined>"
UNSET_STATUS == 0

CACHE_CONTROL_MAX_AGE_SECONDS == 60 * 60 * 24
RETRIES == 3
REDIRECT_STATUS == 301
NOT_FOUND_STATUS == 404
ERROR_STATUS == 500
NOT_FOUND_BODY == "not found"
CACHE_CONTROL_NAME == "Cache-Control"
LOCATION_NAME_Capital == "Location"
LOCATION_NAME == "location"

CacheControlValue_NoSeconds ==
  "max-age=0, s-maxage=, stale-while-revalidate"

CacheControlValue ==
  "max-age=0, s-maxage=" \o ToString(CACHE_CONTROL_MAX_AGE_SECONDS)
    \o ", stale-while-revalidate"

\* ------------------------------------------------------------ input domains
Urls == { Undefined, "/api/prerender", "/api/prerenderx", "/asset/bitcoin" }
Hosts == { Undefined, "localhost:3000", "messari.io" }
UserAgents == { Undefined, "twitterbot" }
Methods == { "GET", "HEAD" }
HeaderNames == { "location", "Location", "Cache-Control" }
HeaderValues == { "", "/canonical-page" }
UpstreamStatuses == { 200, REDIRECT_STATUS }
Bodies == { "", "<html>...</html>" }
Errors == { [name |-> "RequestError", message |-> "ETIMEDOUT"],
            [name |-> "HTTPError", message |-> "Response code 503"] }
HEADERS_SENT == [name |-> "Error", message |-> "ERR_HTTP_HEADERS_SENT"]

\* The characters of each text the code looks into.
Chars(s) ==
  CASE s = "/api/prerender" ->
         <<"/","a","p","i","/","p","r","e","r","e","n","d","e","r">>
    [] s = "/api/prerenderx" ->
         <<"/","a","p","i","/","p","r","e","r","e","n","d","e","r","x">>
    [] s = "/asset/bitcoin" ->
         <<"/","a","s","s","e","t","/","b","i","t","c","o","i","n">>
    [] s = "localhost:3000" ->
         <<"l","o","c","a","l","h","o","s","t",":","3","0","0","0">>
    [] s = "messari.io" ->
         <<"m","e","s","s","a","r","i",".","i","o">>
    [] s = "twitterbot" ->
         <<"t","w","i","t","t","e","r","b","o","t">>
    [] s = "prerender-vercel-middleware-nextfn" ->
         <<"p","r","e","r","e","n","d","e","r","-","v","e","r","c","e","l","-","m","i","d","d","l","e","w","a","r","e","-","n","e","x","t","f","n">>
    [] s = "localhost" ->
         <<"l","o","c","a","l","h","o","s","t">>
    [] s = "prerender" ->
         <<"p","r","e","r","e","n","d","e","r">>

\* ---------------------------------------------------------- text functions
\* String.prototype.startsWith
StartsWith(s, p) ==
  LET cs == Chars(s)
      cp == Chars(p)
  IN Len(cs) >= Len(cp) /\ SubSeq(cs, 1, Len(cp)) = cp

\* String.prototype.includes
Includes(s, p) ==
  LET cs == Chars(s)
      cp == Chars(p)
  IN \E i \in 1..(Len(cs) + 1) :
       i + Len(cp) - 1 <= Len(cs) /\ SubSeq(cs, i, i + Len(cp) - 1) = cp

\* A value used as a condition: undefined and the empty text are falsy.
Truthy(s) == s # Undefined /\ s # ""

\* A value inside a template literal: undefined prints as "undefined".
Interpolate(s) == IF s = Undefined THEN "undefined" ELSE s

\* Error.prototype.toString
ErrToString(e) == e.name \o ": " \o e.message

\* The outer response stores a header under its lower-cased name.
LowerName(k) ==
  CASE k = "Location" -> "location"
    [] k = "Cache-Control" -> "cache-control"
    [] OTHER -> k
OuterNames == { LowerName(k) : k \in HeaderNames }

\* -------------------------------------------------------- next.config.js
botsOnlyList ==
  << <<"f","a","c","e","b","o","o","k","e","x","t","e","r","n","a","l","h","i","t">>,
     <<"t","w","i","t","t","e","r","b","o","t">>,
     <<"r","o","g","e","r","b","o","t">>,
     <<"l","i","n","k","e","d","i","n","b","o","t">>,
     <<"e","m","b","e","d","l","y">>,
     <<"q","u","o","r","a"," ","l","i","n","k"," ","p","r","e","v","i","e","w">>,
     <<"s","h","o","w","y","o","u","b","o","t">>,
     <<"o","u","t","b","r","a","i","n">>,
     <<"p","i","n","t","e","r","e","s","t","/","0",".">>,
     <<"p","i","n","t","e","r","e","s","t","b","o","t">>,
     <<"d","e","v","e","l","o","p","e","r","s",".","g","o","o","g","l","e",".","c","o","m","/","+","/","w","e","b","/","s","n","i","p","p","e","t">>,
     <<"s","l","a","c","k","b","o","t">>,
     <<"v","k","S","h","a","r","e">>,
     <<"W","3","C","_","V","a","l","i","d","a","t","o","r">>,
     <<"r","e","d","d","i","t","b","o","t">>,
     <<"A","p","p","l","e","b","o","t">>,
     <<"W","h","a","t","s","A","p","p">>,
     <<"f","l","i","p","b","o","a","r","d">>,
     <<"t","u","m","b","l","r">>,
     <<"b","i","t","l","y","b","o","t">>,
     <<"B","i","t","r","i","x"," ","l","i","n","k"," ","p","r","e","v","i","e","w">>,
     <<"X","I","N","G","-","c","o","n","t","e","n","t","t","a","b","r","e","c","e","i","v","e","r">>,
     <<"D","i","s","c","o","r","d","b","o","t">>,
     <<"T","e","l","e","g","r","a","m","B","o","t">> >>

\* One pattern character against one text character: "." matches any.
AtomMatches(a, c) == a = "." \/ a = c

\* Whether pattern pat, from position i, matches a prefix of s that starts at
\* position j. The signatures are regular-expression source: "." is any
\* character and "+" repeats the character before it one or more times.
RECURSIVE MatchAt(_, _, _, _)
MatchAt(pat, i, s, j) ==
  IF i > Len(pat) THEN TRUE
  ELSE IF i < Len(pat) /\ pat[i + 1] = "+"
    THEN \E k \in 1..(Len(s) - j + 1) :
           /\ \A m \in j..(j + k - 1) : AtomMatches(pat[i], s[m])
           /\ MatchAt(pat, i + 2, s, j + k)
    ELSE /\ j <= Len(s)
         /\ AtomMatches(pat[i], s[j])
         /\ MatchAt(pat, i + 1, s, j + 1)

\* value: "^(?!.*prerender).*$"
NotPrerenderCondition(ua) == ua # Undefined /\ ~Includes(ua, PRERENDER)

\* value: `(${botsOnlyList.join("|")}).*`, matched against the whole header
BotCondition(ua) ==
  /\ ua # Undefined
  /\ \E b \in 1..Len(botsOnlyList) : MatchAt(botsOnlyList[b], 1, Chars(ua), 1)

\* has: prerenderRewriteConditions (an array of conditions is their AND)
prerenderRewriteConditions(ua) == NotPrerenderCondition(ua) /\ BotCondition(ua)

\* rewrites(): beforeFiles and afterFiles send a request that meets the
\* conditions to /api/prerender (source "/:path*" takes every path); a
\* request for /api/prerender itself is served by the page file.
RoutesToAdapter(path, ua) ==
  path = ADAPTER_PATH \/ prerenderRewriteConditions(ua)

\* ------------------------------------------------------------------ state
VARIABLES
  mode,      \* what the environment may do: requests in flight, client calls
  inbound,   \* inbound[r]: the NextApiRequest handler was called with
  hpc,       \* hpc[r]: where handler is: idle, calling, returned, threw
  ret,       \* ret[r]: the promise handler returned: none, pending, resolved
  view,      \* view[r]: req, the Adapter Request View
  headers,   \* headers[r]: the header map of the Adapter Response View
  status,    \* status[r]: its recorded status
  signal,    \* signal[r]: waitForPromise: none, pending, resolved
  out,       \* out[r]: nextApiRes, the outer response
  cpc,       \* cpc[r]: the rendering client and the fallback continuation
  fetch,     \* fetch[r]: the outbound fetch of the fallback continuation
  err,       \* err[r]: the error handed to the catch handler
  log,       \* log[r]: terminal writes and resolver calls, in order
  given,     \* given[r]: the body last handed to end or to the then handler
  hist,      \* hist[r]: the calls made for the request, where the mode
             \*          records them: all of them in order, or the latest
  firstBegin, \* firstBegin[r]: the status of the first writeHead call, where
             \*          the mode records calls
  budget     \* budget[r]: calls the rendering client may still make

vars == << mode, inbound, hpc, ret, view, headers, status, signal, out, cpc,
           fetch, err, log, given, hist, firstBegin, budget >>

NoRequest ==
  [method |-> Undefined, url |-> Undefined, host |-> Undefined,
   userAgent |-> Undefined]
NoView ==
  [built |-> FALSE, encrypted |-> FALSE, method |-> Undefined,
   originalUrl |-> Undefined, url |-> Undefined, host |-> Undefined,
   userAgent |-> Undefined]
NoFetch ==
  [issued |-> FALSE, url |-> "", userAgent |-> Undefined, attempts |-> 0,
   toAdapter |-> FALSE]
NoError == [name |-> "", message |-> ""]
NoHeaders == [k \in HeaderNames |-> Undefined]
FreshResponse ==
  [statusCode |-> 200, headers |-> [k \in OuterNames |-> Undefined],
   body |-> Undefined, redirect |-> Undefined, sent |-> FALSE]

Requests ==
  [method : Methods, url : Urls, host : Hosts, userAgent : UserAgents]

\* The requests of the scenario of STEP 5 (GET, twitterbot, one host), with
\* every url.
BotRequests ==
  { q \in Requests :
      /\ q.method = "GET"
      /\ q.host = "messari.io"
      /\ q.userAgent = "twitterbot" }

\* A writeHead argument: header names in insertion order, each with a value.
HeaderLists ==
  { hs \in UNION { [1..n -> HeaderNames \X (HeaderValues \cup {Undefined})] :
                     n \in 0..MaxHeadLen } :
      \A i, j \in 1..Len(hs) : i # j => hs[i][1] # hs[j][1] }

Event(site, op, ok) == [site |-> site, op |-> op, ok |-> ok]
RESOLVE == Event("callWhenDone", "resolve", TRUE)

\* ------------------------------------------------- the outer response
\* nextApiRes.status(code)
OutStatus(o, code) == [o EXCEPT !.statusCode = code]

\* nextApiRes.setHeader(key, val), on a response not yet sent
OutSetHeader(o, k, v) == [o EXCEPT !.headers[LowerName(k)] = v]

\* nextApiRes.send(body), on a response not yet sent
OutSend(o, body) == [o EXCEPT !.body = body, !.sent = TRUE]

\* nextApiRes.redirect(location), on a response not yet sent
OutRedirect(o, location) == [o EXCEPT !.redirect = location, !.sent = TRUE]

\* ------------------------------------------- convertNextJsToReqResNextHandler
protocol(request) ==
  IF request.host # Undefined /\ Includes(request.host, LOCALHOST)
    THEN "http" ELSE "https"

originallyRequestedUrlWithProtocolAndHost(request) ==
  protocol(request) \o "://" \o Interpolate(request.host)
    \o Interpolate(request.url)

\* A request view whose encrypted flag follows the protocol.
req_EncryptedFromProtocol(request) ==
  [built |-> TRUE, encrypted |-> (protocol(request) = "https"),
   method |-> request.method, originalUrl |-> request.url,
   url |-> request.url, host |-> request.host,
   userAgent |-> request.userAgent]

req(request) ==
  [built |-> TRUE, encrypted |-> TRUE, method |-> request.method,
   originalUrl |-> request.url, url |-> request.url, host |-> request.host,
   userAgent |-> request.userAgent]

\* res.getHeader(key)
getHeader(h, key) == h[key]

\* res.setHeader(key, val): the map first, then the outer response, which
\* throws once it has been sent.
\* A setHeader that stores the value without handing it to the outer response.
setHeader_NoMirror(h, o, key, val) ==
  [headers |-> [h EXCEPT ![key] = val], out |-> o, threw |-> FALSE]

setHeader(h, o, key, val) ==
  [headers |-> [h EXCEPT ![key] = val],
   out |-> IF o.sent THEN o ELSE OutSetHeader(o, key, val),
   threw |-> o.sent]

\* A loop that skips no header, whatever its value.
skipped_Never(header) == FALSE

\* if (!header) return;
skipped(header) == ~Truthy(header)

\* Object.keys(_headers).forEach(...): falsy values are skipped, and a throw
\* of setHeader ends the loop.
RECURSIVE applyHeaders(_, _, _, _)
applyHeaders(h, o, hs, i) ==
  IF i > Len(hs) THEN [headers |-> h, out |-> o, threw |-> FALSE]
  ELSE IF skipped(hs[i][2]) THEN applyHeaders(h, o, hs, i + 1)
  ELSE LET s == setHeader(h, o, hs[i][1], hs[i][2])
       IN IF s.threw THEN s ELSE applyHeaders(s.headers, s.out, hs, i + 1)

\* A writeHead that records the status without handing it to the outer
\* response.
writeHead_StatusNotMirrored(h, o, _status, _headers) ==
  LET a == applyHeaders(h, o, _headers, 1)
  IN [status |-> _status, headers |-> a.headers, out |-> a.out,
      threw |-> a.threw]

\* res.writeHead(_status, _headers)
writeHead(h, o, _status, _headers) ==
  LET a == applyHeaders(h, OutStatus(o, _status), _headers, 1)
  IN [status |-> _status, headers |-> a.headers, out |-> a.out,
      threw |-> a.threw]

\* A body branch that leaves the caching header as the client set it.
endWrite_NoCacheControl(o, body) == OutSend(o, body)

\* end, the body branch: the fixed caching header, then the body
endWrite(o, body) ==
  OutSend(OutSetHeader(o, CACHE_CONTROL_NAME, CacheControlValue), body)

\* An end without the check of the location: a 301 with none stored falls
\* through to the body branch.
end_NoThrow(h, st, o, body) ==
  IF o.sent
    THEN [out |-> o, events |-> << Event("end", "setHeader", FALSE) >>,
          resolve |-> FALSE, threw |-> TRUE]
  ELSE IF st = REDIRECT_STATUS /\ Truthy(h[LOCATION_NAME])
    THEN [out |-> OutRedirect(o, h[LOCATION_NAME]),
          events |-> << Event("end", "redirect", TRUE), RESOLVE >>,
          resolve |-> TRUE, threw |-> FALSE]
  ELSE [out |-> endWrite(o, body),
        events |-> << Event("end", "send", TRUE), RESOLVE >>,
        resolve |-> TRUE, threw |-> FALSE]

\* res.end(body): what it does to the outer response, the calls it logs,
\* whether it reaches callWhenDone and whether it throws.
end(h, st, o, body) ==
  IF st = REDIRECT_STATUS
    THEN LET location == h[LOCATION_NAME]
         IN IF ~Truthy(location)
              THEN [out |-> o, events |-> <<>>, resolve |-> FALSE,
                    threw |-> TRUE]
            ELSE IF o.sent
              THEN [out |-> o, events |-> << Event("end", "redirect", FALSE) >>,
                    resolve |-> FALSE, threw |-> TRUE]
            ELSE [out |-> OutRedirect(o, location),
                  events |-> << Event("end", "redirect", TRUE), RESOLVE >>,
                  resolve |-> TRUE, threw |-> FALSE]
  ELSE IF o.sent
    THEN [out |-> o, events |-> << Event("end", "setHeader", FALSE) >>,
          resolve |-> FALSE, threw |-> TRUE]
  ELSE [out |-> endWrite(o, body),
        events |-> << Event("end", "send", TRUE), RESOLVE >>,
        resolve |-> TRUE, threw |-> FALSE]

\* A then handler that calls the resolver before it writes.
fetchThen_ResolveFirst(o, body) ==
  IF o.sent
    THEN [out |-> o, events |-> << RESOLVE, Event("then", "send", FALSE) >>,
          resolve |-> TRUE, threw |-> TRUE]
  ELSE [out |-> OutSend(o, body),
        events |-> << RESOLVE, Event("then", "send", TRUE) >>,
        resolve |-> TRUE, threw |-> FALSE]

\* The then handler of next: nextApiRes.send(res.body); callWhenDone(null)
fetchThen(o, body) ==
  IF o.sent
    THEN [out |-> o, events |-> << Event("then", "send", FALSE) >>,
          resolve |-> FALSE, threw |-> TRUE]
  ELSE [out |-> OutSend(o, body),
        events |-> << Event("then", "send", TRUE), RESOLVE >>,
        resolve |-> TRUE, threw |-> FALSE]

\* A catch handler that forgets the status.
fetchCatch_NoStatus(o, e) ==
  IF o.sent
    THEN [out |-> o, events |-> << Event("catch", "send", FALSE) >>,
          resolve |-> FALSE, threw |-> TRUE]
  ELSE [out |-> OutSend(o, ErrToString(e)),
        events |-> << Event("catch", "send", TRUE), RESOLVE >>,
        resolve |-> TRUE, threw |-> FALSE]

\* A catch handler that calls the resolver before it writes.
fetchCatch_ResolveFirst(o, e) ==
  IF o.sent
    THEN [out |-> OutStatus(o, ERROR_STATUS),
          events |-> << RESOLVE, Event("catch", "send", FALSE) >>,
          resolve |-> TRUE, threw |-> TRUE]
  ELSE [out |-> OutSend(OutStatus(o, ERROR_STATUS), ErrToString(e)),
        events |-> << RESOLVE, Event("catch", "send", TRUE) >>,
        resolve |-> TRUE, threw |-> FALSE]

\* The catch handler of next:
\* nextApiRes.status(500).send(err.toString()); callWhenDone(null)
fetchCatch(o, e) ==
  IF o.sent
    THEN [out |-> OutStatus(o, ERROR_STATUS),
          events |-> << Event("catch", "send", FALSE) >>,
          resolve |-> FALSE, threw |-> TRUE]
  ELSE [out |-> OutSend(OutStatus(o, ERROR_STATUS), ErrToString(e)),
        events |-> << Event("catch", "send", TRUE), RESOLVE >>,
        resolve |-> TRUE, threw |-> FALSE]

\* A fetch that forwards the user-agent of the inbound request.
fallbackUserAgent_Forwarded(request) == request.userAgent

\* The options of prerendercloud._got in next
fallbackUserAgent(request) == FALLBACK_USER_AGENT

\* callWhenDone(null) on waitForPromise: a promise resolves once.
Resolved(sig, resolve) == IF resolve /\ sig = "pending" THEN "resolved" ELSE sig

\* A guard that compares the whole url with the path.
selfEndpoint_Equals(request) ==
  Truthy(request.url) /\ request.url = ADAPTER_PATH

\* A guard that compares with the path written with a trailing slash.
selfEndpoint_TrailingSlash(request) ==
  Truthy(request.url) /\ request.url = "/api/prerender/"

\* if (nextApiReq.url && nextApiReq.url.startsWith("/api/prerender"))
selfEndpoint(request) ==
  Truthy(request.url) /\ StartsWith(request.url, ADAPTER_PATH)

\* ---------------------------------------------------------------- actions
\* A call made for a request: a call of the rendering client on res or next,
\* or an outcome of the outbound fetch, with its arguments.
Call(op, key, val, _status, _headers) ==
  [op |-> op, key |-> key, val |-> val, status |-> _status,
   headers |-> _headers]

\* The calls of request r after call c, where the mode records them.
Recorded(r, c) ==
  [hist EXCEPT ![r] = CASE mode.record = "all" -> Append(@, c)
                        [] mode.record = "latest" -> << c >>
                        [] OTHER -> @]

InitWith(m) ==
  /\ mode = m
  /\ inbound = [r \in Reqs |-> NoRequest]
  /\ hpc = [r \in Reqs |-> "idle"]
  /\ ret = [r \in Reqs |-> "none"]
  /\ view = [r \in Reqs |-> NoView]
  /\ headers = [r \in Reqs |-> NoHeaders]
  /\ status = [r \in Reqs |-> UNSET_STATUS]
  /\ signal = [r \in Reqs |-> "none"]
  /\ out = [r \in Reqs |-> FreshResponse]
  /\ cpc = [r \in Reqs |-> "none"]
  /\ fetch = [r \in Reqs |-> NoFetch]
  /\ err = [r \in Reqs |-> NoError]
  /\ log = [r \in Reqs |-> <<>>]
  /\ given = [r \in Reqs |-> Undefined]
  /\ hist = [r \in Reqs |-> <<>>]
  /\ firstBegin = [r \in Reqs |-> UNSET_STATUS]
  /\ budget = [r \in Reqs |-> 0]

\* One request, and a rendering client that keeps the middleware convention:
\* it calls end or next once, as the last thing it does.
Init ==
  InitWith([reqs |-> 1, calls |-> MaxCalls + 1, once |-> TRUE,
            inputs |-> "all", record |-> "none"])

\* The same client answering the requests of the scenario, with its latest
\* call recorded.
InitRecorded ==
  InitWith([reqs |-> 1, calls |-> MaxCalls + 1, once |-> TRUE,
            inputs |-> "bot", record |-> "latest"])

\* One request, and a client that may go on calling after end or next.
InitRepeat ==
  InitWith([reqs |-> 1, calls |-> MaxRepeatCalls + 1, once |-> FALSE,
            inputs |-> "bot", record |-> "none"])

\* Requests in flight together, their callbacks interleaved.
InitConcurrent ==
  InitWith([reqs |-> Cardinality(Reqs), calls |-> MaxConcCalls + 1, once |-> TRUE,
            inputs |-> "pair", record |-> "all"])

\* Where requests are in flight together the environment keeps to the values
\* of the scenarios: a page and the adapter's own path, the header location
\* with a target, one body and one error.
Paired == mode.inputs = "pair"

\* The requests the environment sends in this mode.
Inbound ==
  CASE mode.inputs = "all" -> Requests
    [] Paired -> { q \in BotRequests :
                     q.url \in { "/asset/bitcoin", ADAPTER_PATH } }
    [] OTHER -> BotRequests

\* The arguments the rendering client calls with, and the outcomes of the
\* outbound fetch, in this mode.
ClientNames == IF Paired THEN { LOCATION_NAME } ELSE HeaderNames
ClientValues == IF Paired THEN { "/canonical-page" } ELSE HeaderValues
ClientHeaderLists ==
  IF Paired
    THEN { << << k, v >> >> : k \in ClientNames, v \in ClientValues }
    ELSE HeaderLists
ClientBodies == IF Paired THEN { "<html>...</html>" } ELSE Bodies
FetchErrors ==
  IF Paired THEN { e \in Errors : e.name = "RequestError" } ELSE Errors

\* The variables headers, status and callWhenDone declared once, at module
\* scope: every request uses the same ones.
closure_ModuleScope(r) == 1

\* The variables headers, status and callWhenDone that the call of
\* convertNextJsToReqResNextHandler for request r declares: one set per
\* call, so per request.
closure(r) == r

\* Requests are numbered in the order the runtime invokes handler for them.
NextRequest(r) ==
  /\ r <= mode.reqs
  /\ hpc[r] = "idle"
  /\ \A q \in 1..(r - 1) : hpc[q] # "idle"

\* handler, for a request the self-endpoint guard answers
HandlerGuard(r) ==
  \E request \in Inbound :
    /\ NextRequest(r)
    /\ selfEndpoint(request)
    /\ inbound' = [inbound EXCEPT ![r] = request]
    /\ out' = [out EXCEPT ![r] =
                 OutSend(OutStatus(out[r], NOT_FOUND_STATUS), NOT_FOUND_BODY)]
    /\ log' = [log EXCEPT ![r] =
                 << Event("guard", "send", TRUE),
                    Event("Promise.resolve", "resolve", TRUE) >>]
    /\ ret' = [ret EXCEPT ![r] = "resolved"]
    /\ hpc' = [hpc EXCEPT ![r] = "returned"]
    /\ UNCHANGED << hist, firstBegin, given, mode, view, headers, status,
                    signal, cpc, fetch, err, budget >>

\* handler, up to its call of prerendercloud(req, res, next)
HandlerCall(r) ==
  \E request \in Inbound :
    /\ NextRequest(r)
    /\ ~selfEndpoint(request)
    /\ inbound' = [inbound EXCEPT ![r] = request]
    /\ view' = [view EXCEPT ![r] = req(request)]
    /\ signal' = [signal EXCEPT ![closure(r)] = "pending"]
    /\ hpc' = [hpc EXCEPT ![r] = "calling"]
    /\ cpc' = [cpc EXCEPT ![r] = "rendering"]
    /\ budget' = [budget EXCEPT ![r] = mode.calls]
    /\ UNCHANGED << hist, firstBegin, given, mode, ret, headers, status, out,
                    fetch, err, log >>

\* handler: return waitForPromise.then(() => {})
HandlerReturn(r) ==
  /\ hpc[r] = "calling"
  /\ hpc' = [hpc EXCEPT ![r] = "returned"]
  /\ ret' = [ret EXCEPT ![r] = "pending"]
  /\ UNCHANGED << hist, firstBegin, given, mode, inbound, view, headers,
                  status, signal, out, cpc, fetch, err, log, budget >>

\* The promise handler returned resolves after waitForPromise has.
ReturnedResolves(r) ==
  /\ ret[r] = "pending"
  /\ signal[closure(r)] = "resolved"
  /\ ret' = [ret EXCEPT ![r] = "resolved"]
  /\ UNCHANGED << hist, firstBegin, given, mode, inbound, hpc, view, headers,
                  status, signal, out, cpc, fetch, err, log, budget >>

\* The rendering client holds res and next from the call on, and may use
\* them during the call or from a later callback. A client that keeps the
\* middleware convention stops after end or next.
ClientMayCall(r) ==
  /\ hpc[r] \in { "calling", "returned" }
  /\ budget[r] > 0
  /\ \/ cpc[r] = "rendering"
     \/ ~mode.once /\ cpc[r] \in { "ended", "failed" }

\* The client calls res.setHeader(key, val).
ClientSetHeader(r) ==
  \E key \in ClientNames, val \in ClientValues :
    LET s == setHeader(headers[closure(r)], out[r], key, val)
    IN /\ ClientMayCall(r)
       /\ budget[r] > 1 \/ ~mode.once
       /\ headers' = [headers EXCEPT ![closure(r)] = s.headers]
       /\ out' = [out EXCEPT ![r] = s.out]
       /\ budget' = [budget EXCEPT ![r] = @ - 1]
       /\ hist' = Recorded(r, Call("setHeader", key, val, UNSET_STATUS, <<>>))
       /\ UNCHANGED << firstBegin, given, mode, inbound, hpc, ret, view,
                       status, signal, cpc, fetch, err, log >>

\* The client calls res.writeHead(_status, _headers).
ClientWriteHead(r) ==
  \E _status \in UpstreamStatuses, _headers \in ClientHeaderLists :
    LET w == writeHead(headers[closure(r)], out[r], _status, _headers)
    IN /\ ClientMayCall(r)
       /\ budget[r] > 1 \/ ~mode.once
       /\ status' = [status EXCEPT ![closure(r)] = w.status]
       /\ headers' = [headers EXCEPT ![closure(r)] = w.headers]
       /\ out' = [out EXCEPT ![r] = w.out]
       /\ budget' = [budget EXCEPT ![r] = @ - 1]
       /\ hist' = Recorded(r, Call("writeHead", Undefined, Undefined, _status,
                                   _headers))
       /\ firstBegin' = [firstBegin EXCEPT ![r] =
                          IF mode.record # "none" /\ @ = UNSET_STATUS
                            THEN _status ELSE @]
       /\ UNCHANGED << given, mode, inbound, hpc, ret, view, signal, cpc,
                       fetch, err, log >>

\* The client calls res.end(body). An error end throws reaches handler's
\* caller when the client made the call inside prerendercloud(req, res, next)
\* and lets it pass; from a later callback it is an uncaught error.
ClientEnd(r) ==
  \E body \in ClientBodies, passes \in BOOLEAN :
    LET e == end(headers[closure(r)], status[closure(r)], out[r], body)
    IN /\ ClientMayCall(r)
       /\ passes => (e.threw /\ hpc[r] = "calling")
       /\ out' = [out EXCEPT ![r] = e.out]
       /\ log' = [log EXCEPT ![r] = @ \o e.events]
       /\ signal' = [signal EXCEPT ![closure(r)] = Resolved(@, e.resolve)]
       /\ cpc' = [cpc EXCEPT ![r] = IF e.threw THEN "failed" ELSE "ended"]
       /\ hpc' = [hpc EXCEPT ![r] = IF passes THEN "threw" ELSE @]
       /\ given' = [given EXCEPT ![r] = body]
       /\ budget' = [budget EXCEPT ![r] = @ - 1]
       /\ hist' = Recorded(r, Call("end", Undefined, body, UNSET_STATUS, <<>>))
       /\ UNCHANGED << firstBegin, mode, inbound, ret, view, headers, status,
                       fetch, err >>

\* The client calls next(): prerendercloud._got(url, options) starts.
ClientNext(r) ==
  /\ ClientMayCall(r)
  /\ fetch' = [fetch EXCEPT ![r] =
       [issued |-> TRUE,
        url |-> originallyRequestedUrlWithProtocolAndHost(inbound[r]),
        userAgent |-> fallbackUserAgent(inbound[r]),
        attempts |-> 1,
        toAdapter |-> RoutesToAdapter(Interpolate(inbound[r].url),
                                      fallbackUserAgent(inbound[r]))]]
  /\ cpc' = [cpc EXCEPT ![r] = "fetching"]
  /\ budget' = [budget EXCEPT ![r] = @ - 1]
  /\ hist' = Recorded(r, Call("next", Undefined, Undefined, UNSET_STATUS, <<>>))
  /\ UNCHANGED << firstBegin, given, mode, inbound, hpc, ret, view, headers,
                  status, signal, out, err, log >>

\* An attempt of the fetch fails and the library tries again (retries: 3).
FetchRetry(r) ==
  /\ cpc[r] = "fetching"
  /\ fetch[r].attempts <= RETRIES
  /\ fetch' = [fetch EXCEPT ![r].attempts = @ + 1]
  /\ UNCHANGED << hist, firstBegin, given, mode, inbound, hpc, ret, view,
                  headers, status, signal, out, cpc, err, log, budget >>

\* The fetch succeeds and the then handler runs; promise callbacks run after
\* handler has returned. A throw of the then handler rejects the promise the
\* catch handler is attached to.
FetchThen(r) ==
  \E body \in ClientBodies :
    LET t == fetchThen(out[r], body)
    IN /\ cpc[r] = "fetching"
       /\ hpc[r] = "returned"
       /\ out' = [out EXCEPT ![r] = t.out]
       /\ log' = [log EXCEPT ![r] = @ \o t.events]
       /\ signal' = [signal EXCEPT ![closure(r)] = Resolved(@, t.resolve)]
       /\ cpc' = [cpc EXCEPT ![r] = IF t.threw THEN "catching" ELSE "ended"]
       /\ err' = [err EXCEPT ![r] = IF t.threw THEN HEADERS_SENT ELSE @]
       /\ given' = [given EXCEPT ![r] = body]
       /\ hist' = Recorded(r, Call("then", Undefined, body, UNSET_STATUS, <<>>))
       /\ UNCHANGED << firstBegin, mode, inbound, hpc, ret, view, headers,
                       status, fetch, budget >>

\* The fetch fails for good: the promise of _got rejects with the error.
FetchRejects(r) ==
  \E e \in FetchErrors :
    /\ cpc[r] = "fetching"
    /\ hpc[r] = "returned"
    /\ cpc' = [cpc EXCEPT ![r] = "catching"]
    /\ err' = [err EXCEPT ![r] = e]
    /\ hist' = Recorded(r, Call("rejects", Undefined, ErrToString(e),
                                UNSET_STATUS, <<>>))
    /\ UNCHANGED << firstBegin, given, mode, inbound, hpc, ret, view, headers,
                    status, signal, out, fetch, log, budget >>

\* The catch handler of next runs.
FetchCatch(r) ==
  LET c == fetchCatch(out[r], err[r])
  IN /\ cpc[r] = "catching"
     /\ out' = [out EXCEPT ![r] = c.out]
     /\ log' = [log EXCEPT ![r] = @ \o c.events]
     /\ signal' = [signal EXCEPT ![closure(r)] = Resolved(@, c.resolve)]
     /\ cpc' = [cpc EXCEPT ![r] = IF c.threw THEN "failed" ELSE "ended"]
     /\ UNCHANGED << hist, firstBegin, given, mode, inbound, hpc, ret, view,
                     headers, status, fetch, err, budget >>

Next ==
  \E r \in Reqs :
    \/ HandlerGuard(r)
    \/ HandlerCall(r)
    \/ HandlerReturn(r)
    \/ ReturnedResolves(r)
    \/ ClientSetHeader(r)
    \/ ClientWriteHead(r)
    \/ ClientEnd(r)
    \/ ClientNext(r)
    \/ FetchRetry(r)
    \/ FetchThen(r)
    \/ FetchRejects(r)
    \/ FetchCatch(r)

Spec == Init /\ [][Next]_vars
SpecRecorded == InitRecorded /\ [][Next]_vars
SpecRepeat == InitRepeat /\ [][Next]_vars
SpecConcurrent == InitConcurrent /\ [][Next]_vars

\* ------------------------------------------------------- reading the state
Invoked(r) == hpc[r] # "idle"

\* The calls of the completion resolver, and the completed terminal writes.
Resolutions(r) ==
  Cardinality({ i \in DOMAIN log[r] : log[r][i].op = "resolve" })
Writes(r) ==
  { i \in DOMAIN log[r] : log[r][i].op \in { "send", "redirect" } /\ log[r][i].ok }
Wrote(r, site, op) == \E i \in DOMAIN log[r] : log[r][i] = Event(site, op, TRUE)

\* The request has left the adapter: the guard answered it, or end or the
\* fallback continuation ran to its end or to its throw.
GuardAnswered(r) == Invoked(r) /\ cpc[r] = "none"
EndCalled(r) == cpc[r] \in { "ended", "failed" } /\ ~fetch[r].issued
FallbackDone(r) == cpc[r] \in { "ended", "failed" } /\ fetch[r].issued
Finished(r) == GuardAnswered(r) \/ EndCalled(r) \/ FallbackDone(r)

FIXED_CACHE_CONTROL == "max-age=0, s-maxage=86400, stale-while-revalidate"
ErrorTexts == { "RequestError: ETIMEDOUT", "HTTPError: Response code 503" }

\* ------------------------------------------------------------------ claims

\* C1: every request the adapter has finished with, on any exit path (body,
\* redirect, fallback fetch, error), has had its Completion Signal resolved
\* exactly once.
C1_ResolvedOnceOnEveryPath ==
  \A r \in Reqs : Finished(r) => Resolutions(r) = 1

\* C2: a request whose path equals /api/prerender, with any user-agent, gets
\* 404 "not found", is resolved exactly once, and never reaches the rendering
\* client: no adapter view is built and no completion signal is created.
C2_SelfEndpointNotFound ==
  \A r \in Reqs :
    (Invoked(r) /\ inbound[r].url = ADAPTER_PATH) =>
      /\ out[r].statusCode = 404
      /\ out[r].body = "not found"
      /\ out[r].sent
      /\ Resolutions(r) = 1
      /\ ret[r] = "resolved"
      /\ cpc[r] = "none"
      /\ ~view[r].built
      /\ signal[r] = "none"
      /\ budget[r] = 0

C2_Witness ==
  \E r \in Reqs :
    /\ Invoked(r)
    /\ inbound[r].url = ADAPTER_PATH
    /\ inbound[r].userAgent = Undefined
    /\ out[r].sent

\* C3: after end has written a body (recorded status other than 301) the
\* outer response carries Cache-Control: max-age=0, s-maxage=86400,
\* stale-while-revalidate, whatever caching header the client set before,
\* and its body is the body handed to end.
C3_FixedCacheControl ==
  \A r \in Reqs :
    (EndCalled(r) /\ cpc[r] = "ended" /\ status[r] # 301) =>
      /\ out[r].headers["cache-control"] = FIXED_CACHE_CONTROL
      /\ out[r].body = given[r]
      /\ out[r].sent
      /\ out[r].redirect = Undefined

C3_Witness ==
  \E r \in Reqs :
    /\ EndCalled(r) /\ cpc[r] = "ended" /\ status[r] # 301
    /\ headers[r]["Cache-Control"] = "/canonical-page"
    /\ given[r] = "<html>...</html>"

\* C4, as claimed: when end is called with recorded status 301 and a location
\* header stored, of any value, the adapter redirects to that value.
C4_RedirectToStoredLocation ==
  \A r \in Reqs :
    (EndCalled(r) /\ status[r] = 301 /\ headers[r]["location"] # Undefined) =>
      /\ out[r].redirect = headers[r]["location"]
      /\ Resolutions(r) = 1

\* C4, amended: when end is called with recorded status 301 and a non-empty
\* location header stored, the adapter redirects to exactly that value,
\* writes no body and no fixed Cache-Control header, and resolves the signal.
C4_RedirectToNonEmptyLocation ==
  \A r \in Reqs :
    (EndCalled(r) /\ status[r] = 301 /\ headers[r]["location"] \notin { Undefined, "" }) =>
      /\ out[r].redirect = headers[r]["location"]
      /\ out[r].body = Undefined
      /\ out[r].headers["cache-control"] # FIXED_CACHE_CONTROL
      /\ log[r] = << Event("end", "redirect", TRUE), RESOLVE >>
      /\ signal[r] = "resolved"
      /\ cpc[r] = "ended"

C4_Witness ==
  \E r \in Reqs :
    /\ EndCalled(r) /\ status[r] = 301
    /\ headers[r]["location"] = "/canonical-page"
    /\ out[r].redirect = "/canonical-page"

\* C5: when end is called with recorded status 301 and no location header
\* stored, it throws: no redirect is issued, nothing is written, the signal
\* is not resolved and the promise handler returned does not resolve.
C5_MissingLocationIsFatal ==
  \A r \in Reqs :
    (EndCalled(r) /\ status[r] = 301 /\ headers[r]["location"] = Undefined) =>
      /\ cpc[r] = "failed"
      /\ out[r].redirect = Undefined
      /\ out[r].body = Undefined
      /\ ~out[r].sent
      /\ log[r] = <<>>
      /\ signal[r] = "pending"
      /\ ret[r] # "resolved"

C5_Witness ==
  \E r \in Reqs :
    /\ EndCalled(r) /\ status[r] = 301
    /\ headers[r]["location"] = Undefined
    /\ hpc[r] = "threw"

\* C6: in the fallback continuation at most one of the two writes (the
\* fetched body, the 500 error text) is made, never both, also when the
\* write of the then handler throws and the catch handler runs after it; and
\* once the continuation is over the resolver has been called exactly once.
C6_OneFallbackWrite ==
  \A r \in Reqs :
    fetch[r].issued =>
      /\ ~(Wrote(r, "then", "send") /\ Wrote(r, "catch", "send"))
      /\ Cardinality({ i \in Writes(r) : log[r][i].site \in { "then", "catch" } }) <= 1
      /\ FallbackDone(r) => Resolutions(r) = 1

C6_Witness ==
  \E r \in Reqs :
    /\ FallbackDone(r)
    /\ \E i \in DOMAIN log[r] : log[r][i] = Event("then", "send", FALSE)
    /\ \E i \in DOMAIN log[r] : log[r][i] = Event("catch", "send", FALSE)

\* C7: when the fetch of the fallback continuation fails, the outer response
\* gets status 500 and the error's text as body, the signal is resolved, and
\* handler's promise is resolved or about to be: nothing is thrown.
ExpectedErrorText(e) ==
  IF e.name = "RequestError" THEN "RequestError: ETIMEDOUT"
  ELSE "HTTPError: Response code 503"

C7_FetchFailureRecovered ==
  \A r \in Reqs :
    (FallbackDone(r) /\ err[r] \in Errors) =>
      /\ cpc[r] = "ended"
      /\ out[r].statusCode = 500
      /\ out[r].body = ExpectedErrorText(err[r])
      /\ out[r].sent
      /\ Resolutions(r) = 1
      /\ signal[r] = "resolved"
      /\ hpc[r] = "returned"
      /\ ret[r] \in { "pending", "resolved" }

C7_Witness ==
  \E r \in Reqs :
    /\ FallbackDone(r)
    /\ err[r] \in Errors
    /\ fetch[r].attempts = RETRIES + 1
    /\ ret[r] = "resolved"

\* The outcomes a caller can see.
FixedCache(r) == out[r].headers["cache-control"] = FIXED_CACHE_CONTROL
BodyWithFixedCache(r) ==
  /\ out[r].sent /\ out[r].redirect = Undefined
  /\ out[r].body = given[r] /\ FixedCache(r)
RedirectIssued(r) ==
  out[r].sent /\ out[r].redirect # Undefined /\ out[r].body = Undefined
GuardNotFound(r) ==
  /\ out[r].sent /\ out[r].statusCode = 404 /\ out[r].body = "not found"
  /\ ~FixedCache(r)
ErrorText(r) ==
  /\ out[r].sent /\ out[r].statusCode = 500 /\ out[r].body \in ErrorTexts
  /\ ~FixedCache(r)
FetchedBodyWithoutFixedCache(r) ==
  /\ out[r].sent /\ out[r].redirect = Undefined
  /\ Wrote(r, "then", "send")
  /\ out[r].body = given[r] /\ ~FixedCache(r)
Count(b) == IF b THEN 1 ELSE 0

\* C8, as claimed: every request handler completes shows exactly one of
\* four outcomes: a body with the fixed Cache-Control header, a redirect,
\* the guard's 404, or a 500 with an error text.
C8_FourOutcomes ==
  \A r \in Reqs :
    ret[r] = "resolved" =>
      Count(BodyWithFixedCache(r)) + Count(RedirectIssued(r))
        + Count(GuardNotFound(r)) + Count(ErrorText(r)) = 1

\* C8, amended: every request handler completes shows exactly one of five
\* outcomes: the four above, or the body the fallback continuation fetched,
\* written without the fixed Cache-Control header.
C8_FiveOutcomes ==
  \A r \in Reqs :
    ret[r] = "resolved" =>
      Count(BodyWithFixedCache(r)) + Count(RedirectIssued(r))
        + Count(GuardNotFound(r)) + Count(ErrorText(r))
        + Count(FetchedBodyWithoutFixedCache(r)) = 1

C8_Witness ==
  \E r \in Reqs :
    /\ ret[r] = "resolved"
    /\ FetchedBodyWithoutFixedCache(r)
    /\ given[r] = "<html>...</html>"

\* C9: the fetch of the fallback continuation carries the user-agent
\* prerender-vercel-middleware-nextfn and is never routed to the adapter,
\* whatever the path and the user-agent of the request it is made for.
C9_FallbackFetchNotRewritten ==
  \A r \in Reqs :
    fetch[r].issued =>
      /\ fetch[r].userAgent = "prerender-vercel-middleware-nextfn"
      /\ ~fetch[r].toAdapter

C9_Witness ==
  \E r \in Reqs :
    /\ fetch[r].issued
    /\ inbound[r].url = "/asset/bitcoin"
    /\ prerenderRewriteConditions(inbound[r].userAgent)
    /\ ~NotPrerenderCondition(fetch[r].userAgent)
    /\ ~BotCondition(fetch[r].userAgent)

\* C10: every call of the resolver comes after a terminal write (send or
\* redirect) on the outer response, and the promise handler returned is
\* resolved only once the response has been sent.
C10_WriteBeforeResolve ==
  \A r \in Reqs :
    /\ \A i \in DOMAIN log[r] :
         log[r][i].op = "resolve" => \E j \in Writes(r) : j < i
    /\ signal[r] = "resolved" => out[r].sent
    /\ ret[r] = "resolved" => (out[r].sent /\ Resolutions(r) >= 1)

C10_Witness ==
  \E r \in Reqs :
    /\ ret[r] = "resolved"
    /\ signal[r] = "resolved"
    /\ Wrote(r, "end", "redirect")

\* A terminal call (end, next, or a handler of the fallback continuation)
\* is made for request r in this step.
TerminalStep(r) ==
  ClientEnd(r) \/ ClientNext(r) \/ FetchThen(r) \/ FetchCatch(r)

C17_EncryptedFollowsHost ==
  \A r \in Reqs :
    view[r].built =>
      (view[r].encrypted <=> inbound[r].host # "localhost:3000")

\* C17, amended: the encrypted flag of the request view is always set,
\* whatever the host; only the protocol of the reconstructed url follows the
\* host (http for a host containing "localhost", https otherwise); method,
\* url, host and user-agent are copied unchanged.
C17_EncryptedAlwaysSet ==
  \A r \in Reqs :
    view[r].built =>
      /\ view[r].encrypted
      /\ view[r].method = inbound[r].method
      /\ view[r].url = inbound[r].url
      /\ view[r].originalUrl = inbound[r].url
      /\ view[r].host = inbound[r].host
      /\ view[r].userAgent = inbound[r].userAgent
      /\ (fetch[r].issued /\ inbound[r].url = "/asset/bitcoin") =>
           fetch[r].url =
             CASE inbound[r].host = "localhost:3000" ->
                    "http://localhost:3000/asset/bitcoin"
               [] inbound[r].host = "messari.io" ->
                    "https://messari.io/asset/bitcoin"
               [] OTHER -> "https://undefined/asset/bitcoin"

C17_Witness ==
  \E r \in Reqs :
    /\ view[r].built
    /\ view[r].encrypted
    /\ inbound[r].host = "localhost:3000"
    /\ inbound[r].method = "HEAD"
    /\ fetch[r].url = "http://localhost:3000/asset/bitcoin"

\* C18, as claimed: only a request whose path is /api/prerender is answered
\* by the guard; a request with any other path, or with no url, is forwarded
\* to the rendering client and does not get the guard's 404.
C18_GuardOnlyForExactPath ==
  \A r \in Reqs :
    (Invoked(r) /\ inbound[r].url # "/api/prerender") =>
      /\ view[r].built
      /\ cpc[r] # "none"
      /\ ~Wrote(r, "guard", "send")

\* C18, amended: the guard answers every request whose url starts with
\* /api/prerender, a longer path such as /api/prerenderx included; a request
\* whose url does not start with it, or is missing, is forwarded to the
\* rendering client once and does not get the guard's 404.
C18_GuardForPrefix ==
  \A r \in Reqs :
    Invoked(r) =>
      IF inbound[r].url \in { "/api/prerender", "/api/prerenderx" }
        THEN /\ Wrote(r, "guard", "send")
             /\ out[r].statusCode = 404
             /\ out[r].body = "not found"
             /\ ~view[r].built
             /\ cpc[r] = "none"
        ELSE /\ view[r].built
             /\ cpc[r] # "none"
             /\ signal[r] # "none"
             /\ ~Wrote(r, "guard", "send")
             /\ out[r].sent => out[r].body # "not found"

C18_Witness ==
  \E r \in Reqs :
    /\ Invoked(r)
    /\ inbound[r].url = "/api/prerenderx"
    /\ Wrote(r, "guard", "send")
    /\ out[r].statusCode = 404

\* The values the adapter stores for an outer header name, under any
\* spelling of it.
Stored(r, n) ==
  { headers[r][k] : k \in { j \in HeaderNames : LowerName(j) = n } }
    \ { Undefined }

\* C14, as claimed: every name held in the adapter's header map has the same
\* value on the outer response, and getHeader(name) returns what the outer
\* response carries for the name, the caching header after end included.
C14_MapAgreesWithOuter ==
  \A r \in Reqs : \A k \in HeaderNames :
    getHeader(headers[r], k) = out[r].headers[LowerName(k)]

\* C14, amended: with end as the last call, the outer response carries for
\* each header name a value the adapter stores for it under some spelling
\* (the stored value itself when only one spelling is stored, nothing when
\* none is); the Cache-Control of a body written by end is the fixed policy
\* on the outer response only, the adapter's map keeps what the client
\* stored.
C14_OuterCarriesStored ==
  \A r \in Reqs : \A n \in OuterNames :
    IF n = "cache-control" /\ Wrote(r, "end", "send")
      THEN out[r].headers[n] = FIXED_CACHE_CONTROL
      ELSE IF Stored(r, n) = {}
             THEN out[r].headers[n] = Undefined
             ELSE out[r].headers[n] \in Stored(r, n)

C14_Witness ==
  \E r \in Reqs :
    /\ Wrote(r, "end", "send")
    /\ getHeader(headers[r], "Cache-Control") = "/canonical-page"
    /\ out[r].headers["cache-control"] = FIXED_CACHE_CONTROL
    /\ getHeader(headers[r], "location") = "/canonical-page"
    /\ out[r].headers["location"] = "/canonical-page"

\* The latest call made for request r, and whether this step makes a call
\* of the rendering client for it.
LatestCall(r) == hist[r][Len(hist[r])]
ClientCalls(r) == budget'[r] < budget[r]

\* C15, as claimed: the status is set once: the recorded status stays the
\* one of the first writeHead call, whatever later writeHead calls give.
C15_FirstStatusStays ==
  \A r \in Reqs :
    firstBegin[r] # UNSET_STATUS => status[r] = firstBegin[r]

\* C15, amended: every writeHead call records its own status and sets it on
\* the outer response, replacing the one an earlier writeHead recorded; no
\* other call changes the recorded status, and end chooses the redirect or
\* the body by the status recorded last.
C15_LatestStatusRecorded ==
  [][\A r \in Reqs :
       ClientCalls(r) =>
         LET c == LatestCall(r)'
         IN CASE c.op = "writeHead" ->
                   /\ status'[r] = c.status
                   /\ out'[r].statusCode = c.status
              [] c.op = "end" /\ cpc'[r] = "ended" ->
                   /\ status'[r] = status[r]
                   /\ out'[r].redirect # Undefined <=> status[r] = 301
                   /\ out'[r].body # Undefined <=> status[r] # 301
              [] OTHER -> status'[r] = status[r]]_vars

C15_Witness ==
  \E r \in Reqs :
    /\ firstBegin[r] = 200
    /\ status[r] = 301
    /\ LatestCall(r).op = "end"
    /\ out[r].statusCode = 301
    /\ out[r].redirect = "/canonical-page"
    /\ out[r].body = Undefined

\* The place in a writeHead argument of the header named k, 0 if it has none.
Place(hs, k) ==
  IF \E i \in DOMAIN hs : hs[i][1] = k
    THEN CHOOSE i \in DOMAIN hs : hs[i][1] = k
    ELSE 0

\* The places of the non-empty values given for the outer header name n.
PlacesFor(hs, n) ==
  { i \in DOMAIN hs : LowerName(hs[i][1]) = n /\ Truthy(hs[i][2]) }

Latest(places) == CHOOSE i \in places : \A j \in places : j <= i

Private(r) == << headers[r], status[r], signal[r], out[r], log[r] >>

\* A call of the rendering client, or a handler of the fallback
\* continuation, runs for request q in this step.
RunsFor(q) == budget'[q] # budget[q] \/ cpc'[q] # cpc[q]

\* C12: with two requests in flight and their callbacks interleaved, a
\* setHeader, writeHead, end or fallback step of one request changes nothing
\* of the other: not its header map, not its recorded status, not its
\* Completion Signal, not its outer response.
C12_RequestsArePrivate ==
  [][\A q \in Reqs : \A r \in Reqs \ { q } :
       RunsFor(q) => Private(r)' = Private(r)]_vars

C12_Witness ==
  \E q \in Reqs : \E r \in Reqs \ { q } :
    /\ cpc[q] = "rendering"
    /\ status[q] = 301
    /\ headers[q]["location"] = "/canonical-page"
    /\ signal[q] = "pending"
    /\ ~out[q].sent
    /\ cpc[r] = "ended"
    /\ status[r] = UNSET_STATUS
    /\ headers[r]["location"] = Undefined
    /\ signal[r] = "resolved"
    /\ out[r].body = "<html>...</html>"
    /\ out[r].statusCode = 200

\* The adapter a call of convertNextJsToReqResNextHandler returns, before
\* any call on it.
FreshAdapter == [headers |-> NoHeaders, status |-> UNSET_STATUS,
                 out |-> FreshResponse]

\* The adapter a after the call c on it.
After(a, c) ==
  CASE c.op = "setHeader" ->
         LET s == setHeader(a.headers, a.out, c.key, c.val)
         IN [a EXCEPT !.headers = s.headers, !.out = s.out]
    [] c.op = "writeHead" ->
         LET w == writeHead(a.headers, a.out, c.status, c.headers)
         IN [headers |-> w.headers, status |-> w.status, out |-> w.out]
    [] c.op = "end" ->
         [a EXCEPT !.out = end(a.headers, a.status, a.out, c.val).out]
    [] c.op = "then" ->
         [a EXCEPT !.out = fetchThen(a.out, c.val).out]
    [] c.op = "rejects" ->
         [a EXCEPT !.out =
            fetchCatch(a.out,
                       CHOOSE e \in Errors : ErrToString(e) = c.val).out]
    [] OTHER -> a

\* A fresh adapter after the calls cs, made in order.
RECURSIVE Replayed(_, _)
Replayed(cs, n) ==
  IF n = 0 THEN FreshAdapter ELSE After(Replayed(cs, n - 1), cs[n])

\* No handler of request r is waiting to run.
Settled(r) ==
  Invoked(r) /\ cpc[r] \in { "none", "rendering", "ended", "failed" }

\* C11: the answer to a request is a function of the request and of the
\* calls made for it, on an adapter that starts fresh: the outer response
\* is the one these calls give on a fresh adapter, whatever other request
\* ran before or runs beside it, so two requests with the same url, the same
\* user agent and the same calls end with the same status and the same body.
C11_AnswerDependsOnOwnCalls ==
  /\ \A r \in Reqs :
       Settled(r) =>
         IF selfEndpoint(inbound[r])
           THEN out[r].statusCode = 404 /\ out[r].body = "not found"
           ELSE LET a == Replayed(hist[r], Len(hist[r]))
                IN /\ out[r].statusCode = a.out.statusCode
                   /\ out[r].body = a.out.body
                   /\ out[r].redirect = a.out.redirect
  /\ \A q \in Reqs : \A r \in Reqs \ { q } :
       (Settled(q) /\ Settled(r) /\ inbound[q] = inbound[r]
          /\ hist[q] = hist[r]) =>
         /\ out[q].statusCode = out[r].statusCode
         /\ out[q].body = out[r].body
         /\ out[q].redirect = out[r].redirect

C11_Witness ==
  \E q \in Reqs : \E r \in Reqs \ { q } :
    /\ Finished(q) /\ Finished(r)
    /\ inbound[q] = inbound[r]
    /\ inbound[q].url = "/asset/bitcoin"
    /\ hist[q] = hist[r]
    /\ Len(hist[q]) = 2
    /\ hist[q][1].op = "writeHead"
    /\ out[q].statusCode = 301 /\ out[r].statusCode = 301
    /\ out[q].redirect = "/canonical-page"
    /\ out[r].redirect = "/canonical-page"

====
